---- MODULE Spec2Model ----
(***************************************************************************)
(* A model of src/src/main.py (DocumentIntelligenceSystem): the page       *)
(* segmenter, the relevance ranker, the section refiner and the pipeline   *)
(* that sequences them.                                                    *)
(*                                                                         *)
(* Texts are sequences of one-character strings, so that the code's        *)
(* regular expressions, substring tests, strip() and len() are computed    *)
(* character by character.  Offsets are 0-based as in Python: At(s, p) is  *)
(* s[p] and Slice(s, a, b) is s[a:b].                                      *)
(*                                                                         *)
(* The TF-IDF vectoriser and cosine_similarity are library code: the model *)
(* takes their outcome as an input (tfidf): either the call raises or it   *)
(* gives one similarity per section, in hundredths.  Scores are exact      *)
(* rationals where the code adds binary floating-point numbers, so the     *)
(* model does not show rounding (0.1 + 0.2 is 0.3 here).  An exception is  *)
(* known by the name of its type, where the code reports str(e).  The      *)
(* processing_timestamp and processing_time_seconds entries of the result  *)
(* are left out.                                                           *)
(***************************************************************************)
EXTENDS Integers, Sequences, FiniteSets, TLC

VARIABLES
    pc,               \* position of the call being run
    pdf,              \* extract_text_from_pdf: the document being read
    page_idx,         \* extract_text_from_pdf: pages read so far
    sections,         \* the section list under construction / being ranked
    persona,          \* rank_sections_by_relevance: persona argument
    job_description,  \* rank / refine: job description argument
    tfidf,            \* the vectoriser's behaviour on this corpus
    query,            \* rank_sections_by_relevance: the query it built
    ranked_sections,  \* value returned by rank_sections_by_relevance
    refined_sections, \* value returned by refine_sections
    config,           \* process_documents: the configuration file
    documents,        \* process_documents: documents still to be read
    processed_docs,   \* process_documents: names of the documents read
    output            \* value returned by process_documents

vars == <<pc, pdf, page_idx, sections, persona, job_description, tfidf,
          query, ranked_sections, refined_sections, config, documents,
          processed_docs, output>>

\* a variable the running call does not use, or has not set yet
None == "None"
\* page.extract_text() returning None; a text that was never built
NoText == <<None>>

-----------------------------------------------------------------------------
(* Characters and the string primitives the code uses.                     *)

UpperSeq == <<"A","B","C","D","E","F","G","H","I","J","K","L","M",
              "N","O","P","Q","R","S","T","U","V","W","X","Y","Z">>
LowerSeq == <<"a","b","c","d","e","f","g","h","i","j","k","l","m",
              "n","o","p","q","r","s","t","u","v","w","x","y","z">>
Upper == {UpperSeq[i] : i \in 1..Len(UpperSeq)}
Lower == {LowerSeq[i] : i \in 1..Len(LowerSeq)}
Letter == Upper \cup Lower
Digit == {"0","1","2","3","4","5","6","7","8","9"}
DigitSeq == <<"0","1","2","3","4","5","6","7","8","9">>
\* regex \s
Whitespace == {" ", "\n", "\t", "\r", "\f"}
\* regex \w
WordChar == Letter \cup Digit \cup {"_"}
\* regex [.!?]
Terminator == {".", "!", "?"}

LowerOf == [c \in Upper |-> LowerSeq[CHOOSE i \in 1..Len(UpperSeq) : UpperSeq[i] = c]]

\* the sequence <<F(1), ..., F(n)>> (concatenating makes TLC build the tuple
\* once, where it would evaluate F again at every use of the function)
SeqOf(n, F(_)) == [i \in 1..n |-> F(i)] \o <<>>

\* str.lower()
lower(s) == SeqOf(Len(s), LAMBDA i : IF s[i] \in Upper THEN LowerOf[s[i]] ELSE s[i])

InText(s, p) == p >= 0 /\ p < Len(s)
At(s, p) == s[p + 1]
Slice(s, a, b) == SubSeq(s, a + 1, b)

Max(S) == CHOOSE m \in S : \A x \in S : x <= m

\* the elements of a finite set of integers in ascending order
Ascending(S) == SeqOf(Cardinality(S), LAMBDA r :
                    CHOOSE x \in S : Cardinality({y \in S : y < x}) = r - 1)

Min(S) == CHOOSE m \in S : \A x \in S : m <= x

\* first offset at or after p whose character is outside cls
RunIn(s, p, cls) ==
    IF ~InText(s, p) THEN p
    ELSE Min({q \in p..(Len(s) - 1) : At(s, q) \notin cls} \cup {Len(s)})

\* first offset at or after p whose character is in excl
RunNotIn(s, p, excl) ==
    IF ~InText(s, p) THEN p
    ELSE Min({q \in p..(Len(s) - 1) : At(s, q) \in excl} \cup {Len(s)})

\* last offset at or before p whose character is outside cls, or -1
RunBack(s, p, cls) ==
    IF ~InText(s, p) THEN p
    ELSE Max({q \in 0..p : At(s, q) \notin cls} \cup {-1})

\* str.strip()
strip(s) == Slice(s, RunIn(s, 0, Whitespace), RunBack(s, Len(s) - 1, Whitespace) + 1)

\* needle in haystack
Contains(haystack, needle) ==
    \E p \in 0..(Len(haystack) - Len(needle)) :
        Slice(haystack, p, p + Len(needle)) = needle

\* str.endswith
endswith(s, suffix) ==
    Len(s) >= Len(suffix) /\ Slice(s, Len(s) - Len(suffix), Len(s)) = suffix

\* str(n) for n >= 0
RECURSIVE IntToStr(_)
IntToStr(n) ==
    IF n < 10 THEN <<DigitSeq[n + 1]>>
    ELSE IntToStr(n \div 10) \o <<DigitSeq[(n % 10) + 1]>>

\* sep.join(parts)
RECURSIVE join(_, _)
join(sep, parts) ==
    IF parts = <<>> THEN <<>>
    ELSE IF Len(parts) = 1 THEN parts[1]
    ELSE parts[1] \o sep \o join(sep, Tail(parts))

\* c repeated n times
Rep(c, n) == SeqOf(n, LAMBDA i : c)

\* the sequence that holds i at the place places[i]
InverseOf(n, places) == SeqOf(n, LAMBDA r : CHOOSE i \in 1..n : places[i] = r)

\* the parts one after the other
RECURSIVE Concat(_)
Concat(parts) == IF parts = <<>> THEN <<>> ELSE Head(parts) \o Concat(Tail(parts))

\* the elements of seq in the order perm
Reorder(seq, perm) == SeqOf(Len(seq), LAMBDA r : seq[perm[r]])

\* list.sort / sorted: the stable permutation of 1..n under the strict order
\* Before (Before(i, j): element i's key sorts strictly before element j's)
SortPerm(n, Before(_, _)) ==
    InverseOf(n, SeqOf(n, LAMBDA i : 1 + Cardinality({j \in 1..n :
                     Before(j, i) \/ (~Before(i, j) /\ j < i)})))

-----------------------------------------------------------------------------
(* _split_into_sections and _split_by_paragraphs                           *)

\* re.sub(r'\s+', ' ', text).strip()
NormalizeNoStrip(s) ==
    LET keep == SelectSeq(SeqOf(Len(s), LAMBDA i : i),
                    LAMBDA i : s[i] \notin Whitespace \/ i = 1
                               \/ s[i - 1] \notin Whitespace)
    IN  SeqOf(Len(keep), LAMBDA k :
            IF s[keep[k]] \in Whitespace THEN " " ELSE s[keep[k]])
Normalize(s) == strip(NormalizeNoStrip(s))

NoMatch == [end |-> -1, title |-> <<>>]

\* the largest element of a set of offsets, or -1
LastOf(S) == IF S = {} THEN -1 ELSE Max(S)

\* a heading that starts at q and is closed by the line break at nl
HeadingMatch(s, q, nl) ==
    IF nl < 0 THEN NoMatch
    ELSE [end |-> nl + 1, title |-> strip(Slice(s, q, nl))]

\* X*\n where the run X* ends before offset to: greedy, backing off to the
\* last line break of the run; its offset, or -1
ClosingNewline(s, from, to) == LastOf({p \in from..(to - 1) : At(s, p) = "\n"})

\* ([A-Z][A-Z\s]{2,50})\n under re.IGNORECASE
AllCapsBody(s, q) ==
    IF ~(InText(s, q) /\ At(s, q) \in Letter) THEN NoMatch
    ELSE HeadingMatch(s, q, LastOf({q + k + 1 : k \in {k \in 2..50 :
             /\ InText(s, q + k + 1)
             /\ At(s, q + k + 1) = "\n"
             /\ \A j \in 1..k : At(s, q + j) \in Letter \cup Whitespace}}))

\* [A-Z][^.!?]*)\n : the heading text, whose first letter is at w
HeadingText(s, q, w) ==
    IF InText(s, w) /\ At(s, w) \in Letter
    THEN HeadingMatch(s, q, ClosingNewline(s, w + 1, RunNotIn(s, w + 1, Terminator)))
    ELSE NoMatch

\* \s+[A-Z][^.!?]*)\n : the common end of the numbered and Roman headings
HeadingRest(s, q, after) ==
    IF InText(s, after) /\ At(s, after) \in Whitespace
    THEN HeadingText(s, q, RunIn(s, after, Whitespace))
    ELSE NoMatch

\* \.? at offset d
OptionalDot(s, d) == IF InText(s, d) /\ At(s, d) = "." THEN d + 1 ELSE d

\* (\d+\.?\s+[A-Z][^.!?]*)\n
NumberedBody(s, q) ==
    IF InText(s, q) /\ At(s, q) \in Digit
    THEN HeadingRest(s, q, OptionalDot(s, RunIn(s, q, Digit)))
    ELSE NoMatch

Keywords == <<
    [word |-> <<"a","b","s","t","r","a","c","t">>, plural |-> FALSE],
    [word |-> <<"i","n","t","r","o","d","u","c","t","i","o","n">>, plural |-> FALSE],
    [word |-> <<"m","e","t","h","o","d">>, plural |-> TRUE],
    [word |-> <<"r","e","s","u","l","t">>, plural |-> TRUE],
    [word |-> <<"d","i","s","c","u","s","s","i","o","n">>, plural |-> FALSE],
    [word |-> <<"c","o","n","c","l","u","s","i","o","n">>, plural |-> FALSE],
    [word |-> <<"r","e","f","e","r","e","n","c","e","s">>, plural |-> FALSE],
    [word |-> <<"b","a","c","k","g","r","o","u","n","d">>, plural |-> FALSE],
    [word |-> <<"r","e","l","a","t","e","d"," ","w","o","r","k">>, plural |-> FALSE],
    [word |-> <<"e","x","p","e","r","i","m","e","n","t">>, plural |-> TRUE] >>

\* the alternatives of (Abstract|...|Experiments?) that match at q
KeywordsAt(s, q) ==
    {i \in 1..Len(Keywords) :
        /\ q + Len(Keywords[i].word) <= Len(s)
        /\ lower(Slice(s, q, q + Len(Keywords[i].word))) = Keywords[i].word}

\* s? after the keyword that ends before k
PluralEnd(s, k, plural) ==
    IF plural /\ InText(s, k) /\ At(s, k) \in {"s", "S"} THEN k + 1 ELSE k

\* [.\s]*\n after the keyword, which is s[q:g]
KeywordMatch(s, q, g, nl) ==
    IF nl < 0 THEN NoMatch
    ELSE [end |-> nl + 1, title |-> strip(Slice(s, q, g))]

KeywordClose(s, q, g) ==
    KeywordMatch(s, q, g,
        ClosingNewline(s, g, RunIn(s, g, Whitespace \cup {"."})))

KeywordTail(s, q, kw) ==
    KeywordClose(s, q, PluralEnd(s, q + Len(kw.word), kw.plural))

KeywordFound(s, q, hits) ==
    IF hits = {} THEN NoMatch
    ELSE KeywordTail(s, q, Keywords[CHOOSE h \in hits : \A g \in hits : h <= g])

\* (Abstract|Introduction|Methods?|...|Experiments?)[.\s]*\n
KeywordBody(s, q) ==
    IF ~InText(s, q) THEN NoMatch ELSE KeywordFound(s, q, KeywordsAt(s, q))

\* \. after the Roman numeral that ends before r
AfterRoman(s, q, r) ==
    IF InText(s, r) /\ At(s, r) = "." THEN HeadingRest(s, q, r + 1) ELSE NoMatch

\* ([IVX]+\.\s+[A-Z][^.!?]*)\n
RomanBody(s, q) ==
    IF InText(s, q) /\ At(s, q) \in {"I", "V", "X", "i", "v", "x"}
    THEN AfterRoman(s, q, RunIn(s, q, {"I", "V", "X", "i", "v", "x"}))
    ELSE NoMatch

\* section_patterns[k]
PatternBody(k, s, q) ==
    CASE k = 1 -> AllCapsBody(s, q)
      [] k = 2 -> NumberedBody(s, q)
      [] k = 3 -> KeywordBody(s, q)
      [] k = 4 -> RomanBody(s, q)

NumPatterns == 4

\* ^ under re.MULTILINE
LineStart(s, p) == p = 0 \/ At(s, p - 1) = "\n"

\* (?:^|\n) at offset p: the offsets the heading may start at, in the order
\* the alternatives are tried (^ first, then \n)
HeadingStarts(s, p) ==
    (IF LineStart(s, p) THEN <<p>> ELSE <<>>)
    \o (IF InText(s, p) /\ At(s, p) = "\n" THEN <<p + 1>> ELSE <<>>)

\* the first of two attempts that matches
OrElse(a, b) == IF a.end >= 0 THEN a ELSE b

RECURSIVE FirstMatch(_, _, _)
FirstMatch(k, s, starts) ==
    IF starts = <<>> THEN NoMatch
    ELSE OrElse(PatternBody(k, s, Head(starts)), FirstMatch(k, s, Tail(starts)))

\* one attempt of pattern k at offset p
MatchAt(k, s, p) == FirstMatch(k, s, HeadingStarts(s, p))

\* re.finditer(pattern, text): the non-overlapping matches left to right, as
\* (match.start(), match.group(1).strip()); a match can only start where
\* (?:^|\n) matches, so only those offsets (cands, ascending) are tried
RECURSIVE FindIter(_, _, _, _)

\* the matches from cands[1] on, m being the attempt at cands[1]
FindNext(k, s, cands, from, m) ==
    IF m.end < 0 THEN FindIter(k, s, Tail(cands), from)
    ELSE <<[pos |-> Head(cands), title |-> m.title]>>
         \o FindIter(k, s, Tail(cands), m.end)

FindIter(k, s, cands, from) ==
    IF cands = <<>> THEN <<>>
    ELSE IF Head(cands) < from THEN FindIter(k, s, Tail(cands), from)
    ELSE FindNext(k, s, cands, from, MatchAt(k, s, Head(cands)))

MatchStarts(s) ==
    Ascending({p \in 0..(Len(s) - 1) : LineStart(s, p) \/ At(s, p) = "\n"})

\* lines 57-61: the matches of the patterns, pooled in pattern order
PooledMatches(s, cands) ==
    Concat(SeqOf(NumPatterns, LAMBDA k : FindIter(k, s, cands, 0)))

\* boundaries.sort(key=lambda x: x[0])
SortByPos(pooled) ==
    Reorder(pooled, SortPerm(Len(pooled), LAMBDA i, j : pooled[i].pos < pooled[j].pos))

\* the boundaries list of _split_into_sections
Boundaries(s) == SortByPos(PooledMatches(s, MatchStarts(s)))

MinSectionLen == 100

S_Section == <<"S","e","c","t","i","o","n"," ">>
S_Introduction == <<"I","n","t","r","o","d","u","c","t","i","o","n">>

NewSection(page_num, title, body) ==
    [document |-> "placeholder", page_number |-> page_num,
     section_title |-> title, text |-> body]

\* text.split('\n\n')
RECURSIVE SplitFrom(_, _, _)
SplitFrom(s, start, cands) ==
    IF cands = <<>> THEN <<Slice(s, start, Len(s))>>
    ELSE IF Head(cands) < start THEN SplitFrom(s, start, Tail(cands))
    ELSE <<Slice(s, start, Head(cands))>>
         \o SplitFrom(s, Head(cands) + 2, Tail(cands))

SplitBlankLines(s) ==
    SplitFrom(s, 0, Ascending({p \in 0..(Len(s) - 2) :
                                  At(s, p) = "\n" /\ At(s, p + 1) = "\n"}))

MaxParagraphs == 5

\* s[:k]
FirstK(s, k) == SubSeq(s, 1, IF Len(s) < k THEN Len(s) ELSE k)

StripAll(parts) == SeqOf(Len(parts), LAMBDA i : strip(parts[i]))

\* line 103
KeptParagraphs(s) ==
    SelectSeq(StripAll(SplitBlankLines(s)), LAMBDA p : Len(p) > MinSectionLen)

\* lines 105-112
ParagraphSections(paragraphs, page_num) ==
    SeqOf(Len(paragraphs), LAMBDA i :
        NewSection(page_num, S_Section \o IntToStr(i), paragraphs[i]))

_split_by_paragraphs(s, page_num) ==
    ParagraphSections(FirstK(KeptParagraphs(s), MaxParagraphs), page_num)

\* lines 78-84 and 91-97: the span is a section if it is long enough
EmitIfLong(page_num, title, body) ==
    IF Len(body) > MinSectionLen THEN <<NewSection(page_num, title, body)>>
    ELSE <<>>

\* the loop over boundaries (lines 74-87) from boundary i on, and the final
\* section (lines 90-97)
RECURSIVE WalkBoundaries(_, _, _, _, _, _)
WalkBoundaries(s, page_num, bs, i, current_section, start_pos) ==
    IF i > Len(bs)
    THEN EmitIfLong(page_num, current_section, strip(Slice(s, start_pos, Len(s))))
    ELSE (IF start_pos < bs[i].pos
          THEN EmitIfLong(page_num, current_section,
                          strip(Slice(s, start_pos, bs[i].pos)))
          ELSE <<>>)
         \o WalkBoundaries(s, page_num, bs, i + 1, bs[i].title, bs[i].pos)

\* line 99
OrParagraphs(out, s, page_num) ==
    IF out # <<>> THEN out ELSE _split_by_paragraphs(s, page_num)

\* lines 66-99, s being the normalized text
SectionsBetween(s, page_num, boundaries) ==
    IF boundaries = <<>> THEN _split_by_paragraphs(s, page_num)
    ELSE OrParagraphs(WalkBoundaries(s, page_num, boundaries, 1, S_Introduction, 0),
                      s, page_num)

\* lines 57-99
SplitNormalized(s, page_num) == SectionsBetween(s, page_num, Boundaries(s))

_split_into_sections(raw, page_num) == SplitNormalized(Normalize(raw), page_num)

-----------------------------------------------------------------------------
(* rank_sections_by_relevance                                              *)

\* dict.get(key, default)
Get(d, key, default) == IF key \in DOMAIN d THEN d[key] ELSE default

\* a Python value that is a str or a dict is tagged with its type
Str(t) == [type |-> "str", value |-> t]
Dict(items) == [type |-> "dict", items |-> items]
IsStr(v) == v.type = "str"

\* str(v) as an f-string formats it: a str as it is, a dict by its repr
Format(v) ==
    IF IsStr(v) THEN v.value
    ELSE <<"{","'","t","a","s","k","'",":"," ","'">> \o Get(v.items, "task", <<>>)
         \o <<"'","}">>

S_travel == <<"t","r","a","v","e","l">>
S_planner == <<"p","l","a","n","n","e","r">>

travel_keywords == <<
    <<"i","t","i","n","e","r","a","r","y">>,
    <<"a","c","t","i","v","i","t","i","e","s">>,
    <<"a","t","t","r","a","c","t","i","o","n","s">>,
    <<"r","e","s","t","a","u","r","a","n","t","s">>,
    <<"h","o","t","e","l","s">>,
    <<"t","r","a","n","s","p","o","r","t","a","t","i","o","n">>,
    <<"b","u","d","g","e","t">>,
    <<"s","c","h","e","d","u","l","e">> >>

travel_boost_terms == <<
    <<"r","e","s","t","a","u","r","a","n","t">>,
    <<"h","o","t","e","l">>,
    <<"a","t","t","r","a","c","t","i","o","n">>,
    <<"a","c","t","i","v","i","t","y">>,
    <<"f","o","o","d">>,
    <<"c","u","l","t","u","r","e">>,
    <<"h","i","s","t","o","r","y">>,
    <<"c","i","t","y">>,
    <<"p","l","a","c","e">>,
    <<"v","i","s","i","t">>,
    <<"t","r","i","p">>,
    <<"t","r","a","v","e","l">> >>

group_boost_terms == <<
    <<"g","r","o","u","p">>,
    <<"f","r","i","e","n","d","s">>,
    <<"c","o","l","l","e","g","e">>,
    <<"y","o","u","n","g">>,
    <<"b","u","d","g","e","t">>,
    <<"a","f","f","o","r","d","a","b","l","e">>,
    <<"s","t","u","d","e","n","t">> >>

title_boost_terms == <<
    <<"r","e","s","t","a","u","r","a","n","t">>,
    <<"h","o","t","e","l">>,
    <<"a","c","t","i","v","i","t","y">>,
    <<"a","t","t","r","a","c","t","i","o","n">>,
    <<"t","h","i","n","g"," ","t","o"," ","d","o">>,
    <<"t","i","p">> >>

\* IsTravelPersona with the expertise consulted as well as the role
IsTravelRoleOrExpertise(persona_role, persona_expertise) ==
    \/ Contains(lower(persona_role), S_travel)
    \/ Contains(lower(persona_role), S_planner)
    \/ Contains(lower(persona_expertise), S_travel)
    \/ Contains(lower(persona_expertise), S_planner)

\* lines 129: the test that decides whether the travel keywords are added
IsTravelPersona(persona_role, persona_expertise) ==
    \/ Contains(lower(persona_role), S_travel)
    \/ Contains(lower(persona_role), S_planner)

\* lines 124-134
BuildQuery(p, job) ==
    LET persona_role == Get(p, "role", <<>>)
        expertise == Get(p, "expertise", <<>>)
        persona_focus == join(<<" ">>, Get(p, "focus_areas", <<>>))
        persona_expertise ==
            IF IsTravelPersona(persona_role, expertise)
            THEN expertise \o <<" ">> \o join(<<" ">>, travel_keywords)
            ELSE expertise
        persona_text == persona_role \o <<" ">> \o persona_expertise
                        \o <<" ">> \o persona_focus
    IN  persona_text \o <<" ">> \o Format(job)

\* CountTerms with every occurrence of a term counted, not every term
CountOccurrences(terms, txt) ==
    Cardinality({<<k, p>> \in (1..Len(terms)) \X (0..Len(txt)) :
                    /\ p + Len(terms[k]) <= Len(txt)
                    /\ Slice(txt, p, p + Len(terms[k])) = terms[k]})

\* how many of the terms occur in the text
CountTerms(terms, txt) ==
    Cardinality({k \in 1..Len(terms) : Contains(txt, terms[k])})

\* lines 159-175, in hundredths: 0.1 per travel term, 0.05 per group term,
\* 0.2 for a title term
Boost(section) ==
    LET section_lower == lower(section.text)
        title_lower == lower(section.section_title)
    IN  10 * CountTerms(travel_boost_terms, section_lower)
        + 5 * CountTerms(group_boost_terms, section_lower)
        + (IF CountTerms(title_boost_terms, title_lower) > 0 THEN 20 ELSE 0)

\* scores are rationals num/den: similarity and boosts are hundredths, the
\* fallback score is 1/(i+1)
Score(n, d) == [num |-> n, den |-> d]
ScoreLess(a, b) == a.num * b.den < b.num * a.den

\* section with relevance_score and importance_rank set
Annotate(section, score, rank) ==
    [relevance_score |-> score, importance_rank |-> rank] @@ section

\* lines 185-186
AssignRanks(secs) ==
    SeqOf(Len(secs), LAMBDA r : [secs[r] EXCEPT !.importance_rank = r])

\* line 182: sections.sort(key=relevance_score, reverse=True)
SortByRelevance(secs) ==
    Reorder(secs, SortPerm(Len(secs), LAMBDA i, j :
        ScoreLess(secs[j].relevance_score, secs[i].relevance_score)))

\* lines 155-179
ScoreSections(secs, similarities) ==
    SeqOf(Len(secs), LAMBDA i :
        Annotate(secs[i], Score(similarities[i] + Boost(secs[i]), 100), 0))

\* lines 155-186: score, sort, rank
ScoreAndSort(secs, similarities) ==
    AssignRanks(SortByRelevance(ScoreSections(secs, similarities)))

\* SequentialRanks with the rank taken as the 0-based index i
ZeroBasedRanks(secs) ==
    SeqOf(Len(secs), LAMBDA i : Annotate(secs[i], Score(1, i), i - 1))

\* lines 191-193: the fallback of the except branch
SequentialRanks(secs) ==
    SeqOf(Len(secs), LAMBDA i : Annotate(secs[i], Score(1, i), i))

TopN == 15

\* Truncate with the slice bound off by one: sections[:16]
TruncateInclusive(secs) ==
    SubSeq(secs, 1, IF Len(secs) < TopN + 1 THEN Len(secs) ELSE TopN + 1)

\* sections[:15]
Truncate(secs) == SubSeq(secs, 1, IF Len(secs) < TopN THEN Len(secs) ELSE TopN)

\* lines 188 and 195
RankResult(done, q) == [sections |-> done, query |-> q, result |-> Truncate(done)]

\* rank_sections_by_relevance: the list as the call leaves it (it is sorted
\* and annotated in place), the query it built and the value it returns.  tf
\* is what the vectoriser does on this corpus: raise, or the similarities
rank_sections_by_relevance(secs, p, job, tf) ==
    IF secs = <<>>
    THEN [sections |-> secs, query |-> NoText, result |-> <<>>]
    ELSE RankResult(IF tf.fails THEN SequentialRanks(secs)
                    ELSE ScoreAndSort(secs, tf.similarities),
                    BuildQuery(p, job))

-----------------------------------------------------------------------------
(* refine_sections                                                         *)

\* the result of a call that may raise
Returned(v) == [raised |-> FALSE, value |-> v]
Raised(e) == [raised |-> TRUE, error |-> e]

MinTermLen == 4
MinSentenceLen == 20
MaxTopSentences == 3
FallbackSentences == 2

\* set(re.findall(r'\b[a-zA-Z]{4,}\b', s)): the runs of letters at least 4
\* long that have no word character on either side
FindTerms(s) ==
    LET starts == {p \in 0..(Len(s) - 1) :
                     At(s, p) \in Letter /\ (p = 0 \/ At(s, p - 1) \notin WordChar)}
        stop(p) == RunIn(s, p, Letter)
    IN  {Slice(s, p, stop(p)) : p \in {b \in starts :
            /\ stop(b) - b >= MinTermLen
            /\ (stop(b) = Len(s) \/ At(s, stop(b)) \notin WordChar)}}

\* re.split(r'[.!?]+', s) from offset from on
RECURSIVE SplitSentences(_, _)
SplitSentences(s, from) ==
    LET e == RunNotIn(s, from, Terminator)
    IN  IF e >= Len(s) THEN <<Slice(s, from, Len(s))>>
        ELSE <<Slice(s, from, e)>> \o SplitSentences(s, RunIn(s, e, Terminator))

\* line 205
Sentences(txt) ==
    SelectSeq(StripAll(SplitSentences(txt, 0)), LAMBDA p : Len(p) > MinSentenceLen)

\* line 211
SentenceScore(job_terms, sentence) ==
    Cardinality({t \in job_terms : Contains(lower(sentence), t)})

\* SortByScore with sentences of equal score in reverse order (an ascending
\* sort that is then reversed)
SortByScoreReversed(sentences, score) ==
    Reorder(sentences, SortPerm(Len(sentences), LAMBDA i, j :
        score[i] > score[j] \/ (score[i] = score[j] /\ i > j)))

\* line 215: sort by score descending
SortByScore(sentences, score) ==
    Reorder(sentences, SortPerm(Len(sentences), LAMBDA i, j : score[i] > score[j]))

\* lines 208-215: score the sentences, sort them
ScoredSorted(sentences, job_terms) ==
    SortByScore(sentences, SeqOf(Len(sentences), LAMBDA i :
                               SentenceScore(job_terms, sentences[i])))

\* lines 218-219
OrFirstSentences(top_sentences, sentences) ==
    IF top_sentences = <<>> /\ sentences # <<>>
    THEN FirstK(sentences, FallbackSentences)
    ELSE top_sentences

\* lines 208-219
TopSentences(sentences, job_terms) ==
    OrFirstSentences(FirstK(ScoredSorted(sentences, job_terms), MaxTopSentences),
                     sentences)

\* line 223
Terminated(refined_text) ==
    IF endswith(refined_text, <<".">>) THEN refined_text
    ELSE refined_text \o <<".">>

\* lines 221-223
RefinedText(top_sentences) == Terminated(join(<<".", " ">>, top_sentences))

\* lines 204-231 for one section
RefineOne(section, job_terms) ==
    [document |-> section.document,
     page_number |-> section.page_number,
     section_title |-> section.section_title,
     refined_text |-> RefinedText(TopSentences(Sentences(section.text), job_terms)),
     importance_rank |-> section.importance_rank]

\* lines 204-231
RefineAll(secs, job_terms) ==
    SeqOf(Len(secs), LAMBDA i : RefineOne(secs[i], job_terms))

\* refine_sections: job_description.lower() raises on a dict
refine_sections(secs, job) ==
    IF ~IsStr(job) THEN Raised("AttributeError")
    ELSE Returned(RefineAll(secs, FindTerms(lower(job.value))))

-----------------------------------------------------------------------------
(* extract_text_from_pdf                                                   *)

MinPageLen == 50

\* A document is [name, exists, pages, raises_at]: pages are the texts
\* page.extract_text() gives (None for a page without text); reading page
\* raises_at raises (0: nothing raises).

\* lines 33-34
WithDocument(section_splits, name) ==
    SeqOf(Len(section_splits), LAMBDA i :
        [section_splits[i] EXCEPT !.document = name])

\* line 31
HasText(page_text) == page_text # NoText /\ Len(strip(page_text)) > MinPageLen

\* lines 30-35 for page k of the document
PageSections(doc, k) ==
    IF HasText(doc.pages[k])
    THEN WithDocument(_split_into_sections(doc.pages[k], k), doc.name)
    ELSE <<>>

\* the pages read before the except branch ends the loop
PagesRead(doc) ==
    IF doc.raises_at = 0 THEN Len(doc.pages) ELSE doc.raises_at - 1

RECURSIVE ExtractFrom(_, _)
ExtractFrom(doc, k) ==
    IF k > PagesRead(doc) THEN <<>>
    ELSE PageSections(doc, k) \o ExtractFrom(doc, k + 1)

extract_text_from_pdf(doc) == ExtractFrom(doc, 1)

-----------------------------------------------------------------------------
(* process_documents                                                       *)

\* A configuration file is [readable, data]: data is the parsed JSON object,
\* a record with some of the keys challenge_info, documents, persona,
\* job_to_be_done.

RequiredKeys == {"documents", "persona", "job_to_be_done"}

\* lines 251 and 257: the job description, or the exception the lookup raises
ResolveJob(data) ==
    IF "challenge_info" \in DOMAIN data /\ ~IsStr(data.job_to_be_done)
    THEN IF "task" \in DOMAIN data.job_to_be_done.items
         THEN Returned(Str(data.job_to_be_done.items.task))
         ELSE Raised("KeyError")
    ELSE Returned(data.job_to_be_done)

\* lines 247-258
Resolved(data, job) ==
    IF job.raised THEN job
    ELSE Returned([documents |-> data.documents,
                   persona |-> data.persona,
                   job_description |-> job.value,
                   challenge_info |-> Get(data, "challenge_info", {})])

\* lines 241-258
LoadConfiguration(cfg) ==
    IF ~cfg.readable THEN Raised("OSError")
    ELSE IF ~(RequiredKeys \subseteq DOMAIN cfg.data) THEN Raised("KeyError")
    ELSE Resolved(cfg.data, ResolveJob(cfg.data))

\* lines 294-302
ExtractedSections(ranked) ==
    SeqOf(Len(ranked), LAMBDA i :
        [document |-> ranked[i].document,
         page_number |-> ranked[i].page_number,
         section_title |-> ranked[i].section_title,
         importance_rank |-> ranked[i].importance_rank])

\* lines 286-310 (the timestamp and the elapsed time are left out)
SuccessOutput(processed, p, job, challenge_info, ranked, refined) ==
    [metadata |->
        (IF challenge_info # {} THEN [challenge_info |-> challenge_info] ELSE <<>>)
        @@ [input_documents |-> processed, persona |-> p, job_to_be_done |-> job],
     extracted_sections |-> ExtractedSections(ranked),
     sub_section_analysis |-> refined]

\* ErrorOutput without the error entry
ErrorOutputSilent(e) ==
    [metadata |-> [input_documents |-> <<>>, persona |-> <<>>,
                   job_to_be_done |-> Str(<<>>)],
     extracted_sections |-> <<>>,
     sub_section_analysis |-> <<>>]

\* lines 312-325
ErrorOutput(e) ==
    [metadata |-> [input_documents |-> <<>>, persona |-> <<>>,
                   job_to_be_done |-> Str(<<>>), error |-> e],
     extracted_sections |-> <<>>,
     sub_section_analysis |-> <<>>]

-----------------------------------------------------------------------------
(* Inputs.  Each specification below runs one entry point on inputs drawn  *)
(* from bounded sets; the bounds are the Max... definitions.               *)

\* "Intro"
S_Intro ==
    <<"I","n","t","r","o">>
\* "Hotel tips"
S_HotelTips ==
    <<"H","o","t","e","l"," ","t","i","p","s">>
\* "Section 1"
S_Section1 ==
    <<"S","e","c","t","i","o","n"," ","1">>

\* "city hotel"
T_CityHotel ==
    <<"c","i","t","y"," ","h","o","t","e","l">>
\* "nothing here"
T_Nothing ==
    <<"n","o","t","h","i","n","g"," ","h","e","r","e">>
\* "budget food trip"
T_BudgetFood ==
    <<"b","u","d","g","e","t"," ","f","o","o","d"," ","t","r","i","p">>
\* "young friends"
T_Young ==
    <<"y","o","u","n","g"," ","f","r","i","e","n","d","s">>
\* "Travel by train"
T_Train ==
    <<"T","r","a","v","e","l"," ","b","y"," ","t","r","a","i","n">>
\* "quiet"
T_Quiet ==
    <<"q","u","i","e","t">>

TitlePool == <<S_Intro, S_HotelTips, S_Section1>>
TextPool == <<T_CityHotel, T_Nothing, T_BudgetFood, T_Young, T_Train, T_Quiet>>

\* "Plan a budget trip for college friends"
J_Plan ==
    <<"P","l","a","n"," ","a"," ","b","u","d","g","e","t"," ","t","r","i",
      "p"," ","f","o","r"," ","c","o","l","l","e","g","e"," ","f","r","i",
      "e","n","d","s">>
\* "Do it now"
J_Short ==
    <<"D","o"," ","i","t"," ","n","o","w">>
\* "plan4 my_trip TRIP-plan"
J_Dense ==
    <<"p","l","a","n","4"," ","m","y","_","t","r","i","p"," ","T","R","I",
      "P","-","p","l","a","n">>

MaxSections == 16
MaxCorpora == 2
MaxSimStep == 2

\* section i of corpus c
SectionAt(c, i) ==
    [document |-> "a.pdf", page_number |-> i,
     section_title |-> TitlePool[((i * c) % Len(TitlePool)) + 1],
     text |-> TextPool[((i + c) % Len(TextPool)) + 1]]

\* the similarity, in hundredths, the vectoriser gives section i
SimAt(m, i) == ((i * m) % 4) * 25

Vectoriser(fails, m, n) ==
    [fails |-> fails, similarities |-> SeqOf(n, LAMBDA i : SimAt(m, i))]

\* "Travel Planner"
R_TravelPlanner ==
    <<"T","r","a","v","e","l"," ","P","l","a","n","n","e","r">>
\* "TRAVEL agent"
R_TravelAgent ==
    <<"T","R","A","V","E","L"," ","a","g","e","n","t">>
\* "Event planner"
R_EventPlanner ==
    <<"E","v","e","n","t"," ","p","l","a","n","n","e","r">>
\* "Tour guide"
R_Guide ==
    <<"T","o","u","r"," ","g","u","i","d","e">>
\* "travel"
E_Travel ==
    <<"t","r","a","v","e","l">>
\* "Planner tools"
E_Planner ==
    <<"P","l","a","n","n","e","r"," ","t","o","o","l","s">>
\* "cooking"
E_Cooking ==
    <<"c","o","o","k","i","n","g">>
\* "food"
F_Food ==
    <<"f","o","o","d">>
\* "modern art"
F_Art ==
    <<"m","o","d","e","r","n"," ","a","r","t">>

Absent == <<"absent">>

\* a dict with the key when it is present
OptEntry(present, key, value) == IF present THEN [k \in {key} |-> value] ELSE <<>>

RolePool == {Absent, <<>>, R_TravelPlanner, R_TravelAgent, R_EventPlanner, R_Guide}
ExpertisePool == {Absent, <<>>, E_Travel, E_Planner, E_Cooking}
FocusPool == {Absent, <<F_Food, F_Art>>}

PersonaPool ==
    {OptEntry(r # Absent, "role", r) @@ OptEntry(e # Absent, "expertise", e)
     @@ OptEntry(f # Absent, "focus_areas", f) :
        r \in RolePool, e \in ExpertisePool, f \in FocusPool}

P_Planner == [role |-> R_TravelPlanner, expertise |-> <<>>, focus_areas |-> <<>>]

\* "nice hotel food"
B_HotelFood ==
    <<"n","i","c","e"," ","h","o","t","e","l"," ","f","o","o","d">>
\* "quiet lake"
B_Lake ==
    <<"q","u","i","e","t"," ","l","a","k","e">>
\* "city trip"
B_CityTrip ==
    <<"c","i","t","y"," ","t","r","i","p">>

BaseTexts == {B_HotelFood, B_Lake, B_CityTrip}

\* the offsets a word can be added at without splitting a word
WordGaps(t) == {0, Len(t)} \cup {p \in 0..(Len(t) - 1) : At(t, p) = " "}

\* t with one more occurrence of the word w, added at the word gap p
AddOccurrence(t, p, w) ==
    IF p = 0 THEN w \o <<" ">> \o t
    ELSE Slice(t, 0, p) \o <<" ">> \o w \o Slice(t, p, Len(t))

PairSections(t, p, w) ==
    << [document |-> "a.pdf", page_number |-> 1, section_title |-> S_Intro,
        text |-> t],
       [document |-> "a.pdf", page_number |-> 2, section_title |-> S_Intro,
        text |-> AddOccurrence(t, p, w)] >>

\* the arguments of one call of rank_sections_by_relevance
RankInputs ==
    \* corpora of every size, the vectoriser raising or not
    {[sections |-> SeqOf(n, LAMBDA i : SectionAt(c, i)), persona |-> P_Planner,
      job |-> Str(J_Plan), tfidf |-> Vectoriser(f, m, n)] :
        n \in 0..MaxSections, c \in 1..MaxCorpora, f \in BOOLEAN, m \in 0..MaxSimStep}
    \cup
    \* a section and the same section with one more travel term, same similarity
    UNION {{[sections |-> PairSections(t, p, travel_boost_terms[k]),
             persona |-> P_Planner, job |-> Str(J_Plan),
             tfidf |-> Vectoriser(FALSE, 0, 2)] :
                p \in WordGaps(t), k \in 1..Len(travel_boost_terms)} :
           t \in BaseTexts}
    \cup
    \* every persona, both forms of job description
    {[sections |-> <<SectionAt(1, 1)>>, persona |-> p, job |-> j,
      tfidf |-> Vectoriser(FALSE, 1, 1)] :
        p \in PersonaPool, j \in {Str(J_Plan), Dict([task |-> J_Short])}}

-----------------------------------------------------------------------------
(* SpecRank: one call of rank_sections_by_relevance                        *)

InitRank ==
    \E inp \in RankInputs :
        /\ pc = "call"
        /\ sections = inp.sections
        /\ persona = inp.persona
        /\ job_description = inp.job
        /\ tfidf = inp.tfidf
        /\ query = NoText
        /\ ranked_sections = None
        /\ pdf = None /\ page_idx = None /\ refined_sections = None
        /\ config = None /\ documents = None /\ processed_docs = None
        /\ output = None

\* the call's effects: the list sorted and annotated in place, the query,
\* the returned list
RankEffects(r) ==
    /\ sections' = r.sections
    /\ query' = r.query
    /\ ranked_sections' = r.result

CallRank ==
    /\ pc = "call"
    /\ RankEffects(rank_sections_by_relevance(sections, persona, job_description, tfidf))
    /\ pc' = "done"
    /\ UNCHANGED <<pdf, page_idx, persona, job_description, tfidf,
                   refined_sections, config, documents, processed_docs, output>>

NextRank == CallRank

SpecRank == InitRank /\ [][NextRank]_vars

-----------------------------------------------------------------------------
(* SpecRefine: one call of refine_sections                                 *)

\* "Cheap budget trip for friends"
N_Cheap ==
    <<"C","h","e","a","p"," ","b","u","d","g","e","t"," ","t","r","i","p",
      " ","f","o","r"," ","f","r","i","e","n","d","s">>
\* "Museums open early on Monday"
N_Museums ==
    <<"M","u","s","e","u","m","s"," ","o","p","e","n"," ","e","a","r","l",
      "y"," ","o","n"," ","M","o","n","d","a","y">>
\* "A budget guide for the lake"
N_Guide ==
    <<"A"," ","b","u","d","g","e","t"," ","g","u","i","d","e"," ","f","o",
      "r"," ","t","h","e"," ","l","a","k","e">>
\* "Too short"
N_Short ==
    <<"T","o","o"," ","s","h","o","r","t">>
\* "Explanation of local customs"
N_Customs ==
    <<"E","x","p","l","a","n","a","t","i","o","n"," ","o","f"," ","l","o",
      "c","a","l"," ","c","u","s","t","o","m","s">>

SentencePool == <<N_Cheap, N_Museums, N_Guide, N_Short, N_Customs>>

MaxSentences == 4

\* the texts made of at most MaxSentences sentences of the pool, each ended
\* by a full stop
SentenceTexts ==
    UNION {{join(<<" ">>, SeqOf(k, LAMBDA i : SentencePool[pick[i]] \o <<".">>)) :
                pick \in [1..k -> 1..Len(SentencePool)]} :
           k \in 0..MaxSentences}

RankedSection(doc, page_num, title, body, rank) ==
    [document |-> doc, page_number |-> page_num, section_title |-> title,
     text |-> body, relevance_score |-> Score(1, rank), importance_rank |-> rank]

SecondSection ==
    RankedSection("b.pdf", 1, S_Intro,
        join(<<" ">>, <<N_Museums \o <<"!">>, N_Guide \o <<"?">>,
                        N_Customs \o <<".",".",".">>, N_Cheap>>), 2)

RefineJobs == {Str(J_Plan), Str(J_Short), Str(J_Dense), Dict([task |-> J_Plan])}

InitRefine ==
    \E t \in SentenceTexts, more \in BOOLEAN, j \in RefineJobs :
        /\ pc = "call"
        /\ ranked_sections =
              <<RankedSection("a.pdf", 3, S_HotelTips, t, 1)>>
              \o (IF more THEN <<SecondSection>> ELSE <<>>)
        /\ job_description = j
        /\ refined_sections = None
        /\ sections = None /\ persona = None /\ tfidf = None /\ query = None
        /\ pdf = None /\ page_idx = None
        /\ config = None /\ documents = None /\ processed_docs = None
        /\ output = None

\* the call returns the refined sections or raises
RefineEffects(r) ==
    IF r.raised
    THEN pc' = "raised" /\ refined_sections' = None
    ELSE pc' = "done" /\ refined_sections' = r.value

CallRefine ==
    /\ pc = "call"
    /\ RefineEffects(refine_sections(ranked_sections, job_description))
    /\ UNCHANGED <<pdf, page_idx, sections, persona, job_description, tfidf,
                   query, ranked_sections, config, documents, processed_docs,
                   output>>

NextRefine == CallRefine

SpecRefine == InitRefine /\ [][NextRefine]_vars

-----------------------------------------------------------------------------
(* SpecSegment: one call of extract_text_from_pdf, page by page            *)

\* "HOTELS\n"
K_Caps ==
    <<"H","O","T","E","L","S","\n">>
\* "1. Overview\n"
K_Numbered ==
    <<"1","."," ","O","v","e","r","v","i","e","w","\n">>
\* "Results\n"
K_Keyword ==
    <<"R","e","s","u","l","t","s","\n">>
\* "IV. Scope\n"
K_Roman ==
    <<"I","V","."," ","S","c","o","p","e","\n">>

\* a line of n characters: a sentence of n - 1 letters and its full stop
BodyLine(n) == Rep("x", n - 1) \o <<".", "\n">>

\* an empty line: after a line it makes the blank-line separator "\n\n"
K_Blank == <<"\n">>

BlockPool == <<K_Caps, K_Numbered, K_Keyword, K_Roman, K_Blank,
               BodyLine(MinSectionLen - 1), BodyLine(MinSectionLen),
               BodyLine(MinSectionLen + 1)>>

MaxBlocks == 3

\* the page texts made of 1 to MaxBlocks blocks
PageTexts ==
    UNION {{Concat(SeqOf(k, LAMBDA i : BlockPool[pick[i]])) :
                pick \in [1..k -> 1..Len(BlockPool)]} :
           k \in 1..MaxBlocks}

\* what may follow the first page: nothing, a page without text, a page too
\* short to be read, a page of one long line
SecondPages ==
    {<<>>, <<NoText>>, <<BodyLine(MinPageLen)>>, <<BodyLine(MinSectionLen + 1)>>}

Document(name, exists, pages, raises_at) ==
    [name |-> name, exists |-> exists, pages |-> pages, raises_at |-> raises_at]

PdfPool ==
    {Document("a.pdf", TRUE, <<first>> \o second, raises_at) :
        first \in PageTexts, second \in SecondPages, raises_at \in 0..2}

InitSegment ==
    /\ pc = "reading"
    /\ pdf \in {d \in PdfPool : d.raises_at <= Len(d.pages)}
    /\ page_idx = 0
    /\ sections = <<>>
    /\ persona = None /\ job_description = None /\ tfidf = None /\ query = None
    /\ ranked_sections = None /\ refined_sections = None
    /\ config = None /\ documents = None /\ processed_docs = None
    /\ output = None

\* lines 29-35: one turn of the loop over pdf.pages
ReadPage ==
    /\ pc = "reading"
    /\ page_idx < Len(pdf.pages)
    /\ pdf.raises_at # page_idx + 1
    /\ sections' = sections \o PageSections(pdf, page_idx + 1)
    /\ page_idx' = page_idx + 1
    /\ UNCHANGED <<pc, pdf, persona, job_description, tfidf, query,
                   ranked_sections, refined_sections, config, documents,
                   processed_docs, output>>

\* lines 36-39: reading raises, the sections read so far are returned
ExtractRaise ==
    /\ pc = "reading"
    /\ pdf.raises_at = page_idx + 1
    /\ pc' = "returned"
    /\ UNCHANGED <<pdf, page_idx, sections, persona, job_description, tfidf,
                   query, ranked_sections, refined_sections, config, documents,
                   processed_docs, output>>

\* line 39
ExtractReturn ==
    /\ pc = "reading"
    /\ page_idx = Len(pdf.pages)
    /\ pc' = "returned"
    /\ UNCHANGED <<pdf, page_idx, sections, persona, job_description, tfidf,
                   query, ranked_sections, refined_sections, config, documents,
                   processed_docs, output>>

NextSegment == ReadPage \/ ExtractRaise \/ ExtractReturn

SpecSegment == InitSegment /\ [][NextSegment]_vars

-----------------------------------------------------------------------------
(* Spec: one call of process_documents                                     *)

\* "HOTELS\nCheap budget trip for friends. Museums open early on Monday. A budget guide for the lake. Explanation of local customs.\n"
G_Hotels ==
    <<"H","O","T","E","L","S","\n","C","h","e","a","p"," ","b","u","d","g",
      "e","t"," ","t","r","i","p"," ","f","o","r"," ","f","r","i","e","n",
      "d","s","."," ","M","u","s","e","u","m","s"," ","o","p","e","n"," ",
      "e","a","r","l","y"," ","o","n"," ","M","o","n","d","a","y","."," ",
      "A"," ","b","u","d","g","e","t"," ","g","u","i","d","e"," ","f","o",
      "r"," ","t","h","e"," ","l","a","k","e","."," ","E","x","p","l","a",
      "n","a","t","i","o","n"," ","o","f"," ","l","o","c","a","l"," ","c",
      "u","s","t","o","m","s",".","\n">>
\* "Museums open early on Monday! Gardens close late on Sunday. Nothing else happens in this town. Explanation of local customs."
G_Plain ==
    <<"M","u","s","e","u","m","s"," ","o","p","e","n"," ","e","a","r","l",
      "y"," ","o","n"," ","M","o","n","d","a","y","!"," ","G","a","r","d",
      "e","n","s"," ","c","l","o","s","e"," ","l","a","t","e"," ","o","n",
      " ","S","u","n","d","a","y","."," ","N","o","t","h","i","n","g"," ",
      "e","l","s","e"," ","h","a","p","p","e","n","s"," ","i","n"," ","t",
      "h","i","s"," ","t","o","w","n","."," ","E","x","p","l","a","n","a",
      "t","i","o","n"," ","o","f"," ","l","o","c","a","l"," ","c","u","s",
      "t","o","m","s",".">>
\* "Too short. Too short. Too short. Too short. Too short. Too short."
G_Short ==
    <<"T","o","o"," ","s","h","o","r","t","."," ","T","o","o"," ","s","h",
      "o","r","t","."," ","T","o","o"," ","s","h","o","r","t","."," ","T",
      "o","o"," ","s","h","o","r","t","."," ","T","o","o"," ","s","h","o",
      "r","t","."," ","T","o","o"," ","s","h","o","r","t",".">>

DocPool ==
    {Document("a.pdf", TRUE, <<G_Hotels, G_Short>>, 0),
     Document("b.pdf", TRUE, <<G_Plain, NoText>>, 0),
     Document("c.pdf", FALSE, <<>>, 0),
     Document("d.pdf", TRUE, <<G_Plain, G_Hotels>>, 2)}

MaxDocs == 2
MaxPagesPerDoc == 2

DocLists == UNION {[1..k -> DocPool] : k \in 0..MaxDocs}

\* the challenge_info object: absent, empty, or with one key
ChallengeInfos == {[present |-> FALSE, value |-> {}],
                   [present |-> TRUE, value |-> {}],
                   [present |-> TRUE, value |-> {"challenge_id"}]}

JobForms == {Str(J_Plan), Dict([task |-> J_Plan]), Dict([title |-> J_Plan])}

ConfigData(ci, docs, p, job, missing) ==
    OptEntry(ci.present, "challenge_info", ci.value)
    @@ OptEntry(missing # "documents", "documents", docs)
    @@ OptEntry(missing # "persona", "persona", p)
    @@ OptEntry(missing # "job_to_be_done", "job_to_be_done", job)

ConfigPool ==
    {[readable |-> FALSE, data |-> <<>>]}
    \cup {[readable |-> TRUE, data |-> ConfigData(ci, docs, P_Planner, job, "none")] :
            ci \in ChallengeInfos, docs \in DocLists, job \in JobForms}
    \cup {[readable |-> TRUE,
           data |-> ConfigData(ci, <<>>, P_Planner, Str(J_Plan), missing)] :
            ci \in ChallengeInfos, missing \in RequiredKeys}

\* a local of the call that has not been bound yet
Unset == [unset |-> TRUE]

Init ==
    /\ pc = "start"
    /\ config \in ConfigPool
    /\ tfidf \in {Vectoriser(f, 1, MaxDocs * MaxPagesPerDoc) : f \in BOOLEAN}
    /\ documents = <<>> /\ processed_docs = <<>>
    /\ sections = <<>> /\ persona = Unset /\ job_description = Unset
    /\ query = NoText /\ ranked_sections = <<>> /\ refined_sections = <<>>
    /\ pdf = None /\ page_idx = None
    /\ output = Unset

\* lines 312-325: the except branch ends the call with the error result
Fail(e) ==
    /\ pc' = "done"
    /\ output' = ErrorOutput(e)

LoadEffects(r) ==
    IF r.raised
    THEN /\ Fail(r.error)
         /\ UNCHANGED <<documents, persona, job_description, sections, processed_docs>>
    ELSE /\ pc' = "documents"
         /\ documents' = r.value.documents
         /\ persona' = r.value.persona
         /\ job_description' = r.value.job_description
         /\ sections' = <<>>
         /\ processed_docs' = <<>>
         /\ UNCHANGED output

\* lines 241-262
LoadConfig ==
    /\ pc = "start"
    /\ LoadEffects(LoadConfiguration(config))
    /\ UNCHANGED <<pdf, page_idx, tfidf, query, ranked_sections,
                   refined_sections, config>>

\* lines 264-271: one turn of the loop over documents
ProcessDocument ==
    /\ pc = "documents"
    /\ documents # <<>>
    /\ IF Head(documents).exists
       THEN /\ sections' = sections \o extract_text_from_pdf(Head(documents))
            /\ processed_docs' = Append(processed_docs, Head(documents).name)
       ELSE UNCHANGED <<sections, processed_docs>>
    /\ documents' = Tail(documents)
    /\ UNCHANGED <<pc, pdf, page_idx, persona, job_description, tfidf, query,
                   ranked_sections, refined_sections, config, output>>

\* lines 276-278
RankSections ==
    /\ pc = "documents"
    /\ documents = <<>>
    /\ pc' = "refine"
    /\ RankEffects(rank_sections_by_relevance(sections, persona, job_description, tfidf))
    /\ UNCHANGED <<pdf, page_idx, persona, job_description, tfidf,
                   refined_sections, config, documents, processed_docs, output>>

RefineStepEffects(r) ==
    IF r.raised
    THEN Fail(r.error) /\ UNCHANGED refined_sections
    ELSE pc' = "output" /\ refined_sections' = r.value /\ UNCHANGED output

\* line 283
RefineSections ==
    /\ pc = "refine"
    /\ RefineStepEffects(refine_sections(ranked_sections, job_description))
    /\ UNCHANGED <<pdf, page_idx, sections, persona, job_description, tfidf,
                   query, ranked_sections, config, documents, processed_docs>>

\* lines 286-310
BuildOutput ==
    /\ pc = "output"
    /\ pc' = "done"
    /\ output' = SuccessOutput(processed_docs, persona, job_description,
                               Get(config.data, "challenge_info", {}),
                               ranked_sections, refined_sections)
    /\ UNCHANGED <<pdf, page_idx, sections, persona, job_description, tfidf,
                   query, ranked_sections, refined_sections, config, documents,
                   processed_docs>>

Next == LoadConfig \/ ProcessDocument \/ RankSections \/ RefineSections \/ BuildOutput

Spec == Init /\ [][Next]_vars

-----------------------------------------------------------------------------
(* Properties of rank_sections_by_relevance (SpecRank)                     *)

Smaller(a, b) == IF a < b THEN a ELSE b

\* C1: a call of rank_sections_by_relevance on a non-empty list returns at
\* most 15 sections, min(15, len(sections)) of them, and the importance_rank
\* values of the returned sections, read in order, are 1, 2, ..., with no
\* gap and no repeat, whether the vectoriser raised or not.
C1_RankBound ==
    (pc = "done" /\ sections # <<>>) =>
        /\ Len(ranked_sections) <= 15
        /\ Len(ranked_sections) = Smaller(15, Len(sections))
        /\ \A i \in 1..Len(ranked_sections) :
              ranked_sections[i].importance_rank = i

\* more than 15 sections were ranked on the TF-IDF path, and the sort moved
\* another section than the first to the top
C1_Witness ==
    /\ pc = "done"
    /\ ~tfidf.fails
    /\ Len(sections) > 15
    /\ Len(ranked_sections) = 15
    /\ ranked_sections[1].page_number # 1
    /\ ranked_sections[15].importance_rank = 15

\* the text the travel keywords add to the query
TravelKeywordText == join(<<" ">>, travel_keywords)

RoleOf(p) == lower(Get(p, "role", <<>>))
ExpertiseOf(p) == lower(Get(p, "expertise", <<>>))

\* the query holds the expertise followed by the travel keywords
KeywordsAppended ==
    Contains(query, Get(persona, "expertise", <<>>) \o <<" ">> \o TravelKeywordText)

\* C5 (as the code has it): the travel keywords are appended to the
\* expertise text if and only if the persona's role contains "travel" or
\* "planner", case-insensitively; the expertise is not consulted.
C5_RoleDecides ==
    (pc = "done" /\ query # NoText) =>
        (KeywordsAppended <=>
            (Contains(RoleOf(persona), S_travel) \/ Contains(RoleOf(persona), S_planner)))

\* a persona whose expertise is "travel" and whose role is "Tour guide": the
\* query was built without the keywords
C5_Witness ==
    /\ pc = "done" /\ query # NoText
    /\ Get(persona, "expertise", <<>>) = E_Travel
    /\ Get(persona, "role", <<>>) = R_Guide
    /\ ~Contains(query, TravelKeywordText)

\* C5 as stated: the keywords are appended if and only if the role or the
\* expertise contains "travel" or "planner"
C5_RoleOrExpertise ==
    (pc = "done" /\ query # NoText) =>
        (KeywordsAppended <=>
            \/ Contains(RoleOf(persona), S_travel)
            \/ Contains(RoleOf(persona), S_planner)
            \/ Contains(ExpertiseOf(persona), S_travel)
            \/ Contains(ExpertiseOf(persona), S_planner))

\* the call scored the sections on the TF-IDF path with one similarity for
\* all of them
EqualSimilarities ==
    /\ pc = "done"
    /\ ~tfidf.fails
    /\ \A a, b \in 1..Len(tfidf.similarities) :
          tfidf.similarities[a] = tfidf.similarities[b]

\* section b is section a with one more occurrence of the term in its text,
\* and the same title
OneMoreOccurrence(a, b, term) ==
    /\ a.section_title = b.section_title
    /\ \E p \in WordGaps(a.text) : b.text = AddOccurrence(a.text, p, term)

\* the score of b exceeds the score of a by at least 0.10
GainsTenth(a, b) ==
    10 * (b.relevance_score.num * a.relevance_score.den
          - a.relevance_score.num * b.relevance_score.den)
        >= a.relevance_score.den * b.relevance_score.den

SameScore(a, b) ==
    a.relevance_score.num * b.relevance_score.den
        = b.relevance_score.num * a.relevance_score.den

\* C7 (as the code has it): with the base similarity and the title equal,
\* one more occurrence of a travel-boost term raises the final score by at
\* least 0.10 when the text did not contain the term, and leaves it unchanged
\* when the text already contained it.
C7_BoostPerDistinctTerm ==
    EqualSimilarities =>
        \A i, j \in 1..Len(sections), k \in 1..Len(travel_boost_terms) :
            OneMoreOccurrence(sections[i], sections[j], travel_boost_terms[k]) =>
                IF Contains(lower(sections[i].text), travel_boost_terms[k])
                THEN SameScore(sections[i], sections[j])
                ELSE GainsTenth(sections[i], sections[j])

\* "hotel" was added to "quiet lake", "food" to "nice hotel food": the first
\* gained 0.10, the second nothing
C7_Witness ==
    /\ EqualSimilarities
    /\ \E i, j \in 1..Len(sections), k \in 1..Len(travel_boost_terms) :
          /\ OneMoreOccurrence(sections[i], sections[j], travel_boost_terms[k])
          /\ ~Contains(lower(sections[i].text), travel_boost_terms[k])
          /\ GainsTenth(sections[i], sections[j])
          /\ ~SameScore(sections[i], sections[j])

\* C7 as stated: one more occurrence of a travel-boost term raises the final
\* score by at least 0.10 for every text, the texts that already contain the
\* term included
C7_BoostPerOccurrence ==
    EqualSimilarities =>
        \A i, j \in 1..Len(sections), k \in 1..Len(travel_boost_terms) :
            OneMoreOccurrence(sections[i], sections[j], travel_boost_terms[k]) =>
                GainsTenth(sections[i], sections[j])

\* C10: when the vectoriser raises on a non-empty list the call returns; the
\* list keeps its order, section i (1-based) gets relevance_score 1/i and
\* importance_rank i, and the first 15 sections are returned.
C10_Fallback ==
    [][(pc = "call" /\ tfidf.fails /\ sections # <<>>) =>
          /\ pc' = "done"
          /\ Len(sections') = Len(sections)
          /\ \A i \in 1..Len(sections) :
                sections'[i] = [relevance_score |-> [num |-> 1, den |-> i],
                                importance_rank |-> i] @@ sections[i]
          /\ ranked_sections' = SubSeq(sections', 1, Smaller(15, Len(sections)))]_vars

\* the vectoriser raised on more than 15 sections and the call returned 15
C10_Witness ==
    /\ pc = "done"
    /\ tfidf.fails
    /\ Len(sections) > 15
    /\ Len(ranked_sections) = 15
    /\ ranked_sections[2].relevance_score = [num |-> 1, den |-> 2]

-----------------------------------------------------------------------------
(* Properties of refine_sections (SpecRefine)                              *)

\* the call returned
Refined == pc = "done"

\* the qualifying sentences of a section, and their scores
Qualifying(section) == Sentences(section.text)
JobTerms == FindTerms(lower(job_description.value))
ScoresOf(q, terms) == SeqOf(Len(q), LAMBDA x : SentenceScore(terms, q[x]))
Scores(q) == ScoresOf(q, JobTerms)

\* how many sentences come before sentence x when the sentences are ordered
\* by descending score, equal scores in text order
Ahead(sc, x) ==
    Cardinality({y \in 1..Len(sc) : sc[y] > sc[x] \/ (sc[y] = sc[x] /\ y < x)})

\* the sentence that r - 1 sentences come before
Placed(q, sc, r) == q[CHOOSE x \in 1..Len(q) : Ahead(sc, x) = r - 1]

\* the three sentences placed first, joined by ". " and ended by "."
TopThreeText(q, sc) ==
    Placed(q, sc, 1) \o <<".", " ">> \o Placed(q, sc, 2)
    \o <<".", " ">> \o Placed(q, sc, 3) \o <<".">>

\* with at least 3 qualifying sentences, one of which holds a job keyword,
\* the refined text is the three sentences placed first
TopThreeWhenScored(refined_text, q, sc) ==
    (Len(q) >= 3 /\ \E x \in 1..Len(q) : sc[x] > 0)
        => refined_text = TopThreeText(q, sc)

RefinedToTopThree(refined, q) ==
    TopThreeWhenScored(refined.refined_text, q, Scores(q))

\* C8: a section with at least 3 qualifying sentences, one of which holds a
\* job keyword, is refined to its 3 highest-scoring sentences in descending
\* score order, equal scores in text order, joined by ". " and ended by ".";
\* and there is one refined section per ranked section, in order, with
\* document, page_number, section_title and importance_rank copied.
C8_TopThree ==
    Refined =>
        /\ Len(refined_sections) = Len(ranked_sections)
        /\ \A i \in 1..Len(ranked_sections) :
              /\ refined_sections[i].document = ranked_sections[i].document
              /\ refined_sections[i].page_number = ranked_sections[i].page_number
              /\ refined_sections[i].section_title = ranked_sections[i].section_title
              /\ refined_sections[i].importance_rank = ranked_sections[i].importance_rank
              /\ RefinedToTopThree(refined_sections[i], Qualifying(ranked_sections[i]))

\* four qualifying sentences: the first scores 0, the next two score the
\* same, the last scores most; the refined text opens with the last sentence
\* and keeps the tie in text order
TieBehindLast(refined_text, q, sc) ==
    /\ Len(q) = 4
    /\ sc[1] = 0
    /\ sc[2] > 0
    /\ sc[2] = sc[3]
    /\ sc[4] > sc[2]
    /\ refined_text = q[4] \o <<".", " ">> \o q[2] \o <<".", " ">> \o q[3] \o <<".">>

RefinedWithTie(refined, q) == TieBehindLast(refined.refined_text, q, Scores(q))

\* such a section was refined, together with a second section
C8_Witness ==
    /\ Refined
    /\ Len(refined_sections) = 2
    /\ RefinedWithTie(refined_sections[1], Qualifying(ranked_sections[1]))

\* with a qualifying sentence and no sentence that holds a job keyword, the
\* refined text is the first 2 qualifying sentences
FirstTwoWhenUnscored(refined_text, q, sc) ==
    (Len(q) >= 1 /\ \A x \in 1..Len(q) : sc[x] = 0)
        => refined_text =
              join(<<".", " ">>, SubSeq(q, 1, Smaller(2, Len(q)))) \o <<".">>

RefinedToFirstTwo(refined, q) ==
    FirstTwoWhenUnscored(refined.refined_text, q, Scores(q))

\* C6 as stated: a section with a qualifying sentence and no sentence that
\* holds a job keyword is refined to its first 2 qualifying sentences, and to
\* no more, joined by ". " and ended by "."
C6_FirstTwoOnZeroScore ==
    Refined =>
        \A i \in 1..Len(ranked_sections) :
            RefinedToFirstTwo(refined_sections[i], Qualifying(ranked_sections[i]))

-----------------------------------------------------------------------------
(* Properties of the segmenter (SpecSegment)                               *)

\* the first page has been read and had text enough to be segmented
FirstPageRead ==
    /\ page_idx >= 1
    /\ HasText(pdf.pages[1])

\* the sections the first page gave
FirstPageSections == SelectSeq(sections, LAMBDA x : x.page_number = 1)

\* the heading lines of the page text: the matches of the four patterns on
\* the text as the page gives it, line breaks included
HeadingLines(raw) == Boundaries(raw)

ParagraphTitles == {S_Section \o IntToStr(k) : k \in 1..5}

\* C4 as stated: the sections of a page that has heading lines are titled
\* "Introduction" or with the text of one of its headings, never "Section k"
C4_HeadingTitles ==
    (FirstPageRead /\ HeadingLines(pdf.pages[1]) # <<>>) =>
        \A i \in 1..Len(FirstPageSections) :
            /\ FirstPageSections[i].section_title \notin ParagraphTitles
            /\ \/ FirstPageSections[i].section_title = S_Introduction
               \/ \E b \in 1..Len(HeadingLines(pdf.pages[1])) :
                     FirstPageSections[i].section_title = HeadingLines(pdf.pages[1])[b].title

\* the paragraphs of the page text, split on blank lines and trimmed, that
\* are at least 100 characters long; the first 5 of them
LongParagraphs(raw) ==
    FirstK(SelectSeq(StripAll(SplitBlankLines(strip(raw))), LAMBDA x : Len(x) >= 100), 5)

\* C9 as stated: a page without heading lines gives one section per
\* paragraph (split on blank lines) of trimmed length at least 100, at most
\* the first 5, titled "Section 1", "Section 2", ... in order
C9_ParagraphsAtLeast100 ==
    (FirstPageRead /\ HeadingLines(pdf.pages[1]) = <<>>) =>
        /\ Len(FirstPageSections) = Len(LongParagraphs(pdf.pages[1]))
        /\ \A i \in 1..Len(FirstPageSections) :
              FirstPageSections[i].section_title = S_Section \o IntToStr(i)

-----------------------------------------------------------------------------
(* Properties of process_documents (Spec)                                  *)

\* the configurations on which a step of the pipeline raises: the file cannot
\* be read, a key is missing, the job object has no task, or the job is an
\* object that reaches refine_sections unresolved
JobIsObject(data) == ~IsStr(data.job_to_be_done)

StepRaises(cfg) ==
    \/ ~cfg.readable
    \/ ~(RequiredKeys \subseteq DOMAIN cfg.data)
    \/ /\ JobIsObject(cfg.data)
       /\ \/ "challenge_info" \notin DOMAIN cfg.data
          \/ "task" \notin DOMAIN cfg.data.job_to_be_done.items

HasError(out) == "error" \in DOMAIN out.metadata

\* C2: a call of process_documents is at one of its steps or has returned,
\* it never ends by raising; and when a step raised (loading, a key lookup,
\* refinement) the result has empty extracted_sections and
\* sub_section_analysis and an error in its metadata; the error entry is in
\* no other result.
C2_ErrorResult ==
    /\ pc \in {"start", "documents", "refine", "output", "done"}
    /\ (pc = "done") =>
          /\ (HasError(output) <=> StepRaises(config))
          /\ HasError(output) =>
                /\ output.extracted_sections = <<>>
                /\ output.sub_section_analysis = <<>>
                /\ output.metadata.error \in {"OSError", "KeyError", "AttributeError"}
          /\ ~HasError(output) =>
                /\ Len(output.extracted_sections) = Len(ranked_sections)
                /\ output.sub_section_analysis = refined_sections

\* refine_sections raised on a job object after sections had been extracted
\* and ranked, and the call returned the error result
C2_Witness ==
    /\ pc = "done"
    /\ HasError(output)
    /\ output.metadata.error = "AttributeError"
    /\ ranked_sections # <<>>
    /\ output.extracted_sections = <<>>

\* the string a job_to_be_done of either form stands for
ResolvedString(job) == IF IsStr(job) THEN job.value ELSE job.items.task

AcceptedJob(data) ==
    \/ IsStr(data.job_to_be_done)
    \/ "task" \in DOMAIN data.job_to_be_done.items

\* C3 as stated: on a readable configuration with its keys, whose
\* job_to_be_done is a string or an object with a task, the call does not
\* end in the error result and reports the resolved string, with or without
\* challenge_info
C3_BothJobForms ==
    (/\ pc = "done"
     /\ config.readable
     /\ RequiredKeys \subseteq DOMAIN config.data
     /\ AcceptedJob(config.data))
    => /\ ~HasError(output)
       /\ output.metadata.job_to_be_done = Str(ResolvedString(config.data.job_to_be_done))

====
